---- MODULE Spec2Model ----
(***************************************************************************)
(* Trente-et-Quarante: the exact solvers (src/512.rs, src/memo_sim.rs,     *)
(* src/30_b_w.rs) and the Monte Carlo simulator                            *)
(* (src/mountain carlson/main.rs).                                         *)
(*                                                                         *)
(* Conventions.                                                            *)
(*  - A rank is identified with its card value 1..10 (the code's index i   *)
(*    is the value minus one).                                             *)
(*  - An f64 probability is modelled as an exact reduced fraction <<n, d>>;*)
(*    rounding is not modelled.                                            *)
(*  - A u64 is modelled as the set of its 1-bit positions (0 = lowest), so *)
(*    that |, <<, >> and & are exact at full width.                        *)
(*  - A map (HashMap, BTreeMap) is a function on its key set; the nested   *)
(*    BTreeMap total -> run length -> p of 30_b_w.rs is the function on    *)
(*    the pairs <<total, run length>>.                                     *)
(*  - solve is the same function in 512.rs (u16) and memo_sim.rs (u8); in  *)
(*    the runs modelled no sum, count or length reaches 255, so the width  *)
(*    is not modelled there. The casts `total as u16`, `run_len as u8` of  *)
(*    StateKey are.                                                        *)
(*  - A recursive call is a frame pushed on `stack`; a return pops it and  *)
(*    leaves the value in `ret` for the caller's next step.                *)
(***************************************************************************)
EXTENDS Integers, Sequences, FiniteSets, TLC

\* ------------------------------------------------------------------ bounds
\* Cards in an initial deck of the solver model.
MaxCards == 6
\* Largest of the small target thresholds handed to dist_from_state.
MaxTarget == 3
\* Non-zero counts over the two multisets handed to pack_counts together.
MaxNonZero == 2
\* Games the simulator plays before the model stops it.
MaxGames == 3

\* --------------------------------------------------------- program constants
\* `if sum > 30` of solve and play_game.
Threshold == 30
\* `let target_sum: u32 = 31` of 30_b_w.rs's main.
MainTarget == 31
\* Largest count a 4-bit field holds ("Each count is 0..=15").
MaxPackCount == 15
\* Bits per rank in pack_counts / unpack_counts.
FieldBits == 4

Ranks == 1..10
\* Ranks that may be present in the initial decks of the solver model.
DeckRanks == {1, 2, 9, 10}

ZeroCounts == [r \in Ranks |-> 0]

\* --------------------------------------------------------------- arithmetic
RECURSIVE Pow2(_)
Pow2(n) == IF n = 0 THEN 1 ELSE 2 * Pow2(n - 1)

RECURSIVE SumOver(_, _)
\* The sum of f[x] over the finite set S.
SumOver(f, S) ==
    IF S = {} THEN 0
    ELSE LET x == CHOOSE y \in S : TRUE IN f[x] + SumOver(f, S \ {x})

\* counts.iter().sum()
CountSum(counts) == SumOver(counts, Ranks)

\* The total face value of a deck.
DeckValue(counts) == SumOver([r \in Ranks |-> r * counts[r]], Ranks)

\* ------------------------------------------------------------ u64 as bit set
\* `c as u64` for a u8 c.
BitsOf(c) == {b \in 0..7 : (c \div Pow2(b)) % 2 = 1}

\* `x << s` on a u64.
Shl(x, s) == {b + s : b \in {y \in x : y + s <= 63}}

\* `x >> s` on a u64.
Shr(x, s) == {b - s : b \in {y \in x : y >= s}}

\* `(key & 0xF) as u8`.
LowNibble(x) == SumOver([b \in 0..3 |-> IF b \in x THEN Pow2(b) ELSE 0], 0..3)

\* pack_counts with 3-bit fields: enough for the counts 0..4 of the 40-card deck.
pack_counts_3bit(counts) ==
    UNION {Shl(BitsOf(counts[r]), 3 * (r - 1)) : r \in Ranks}

\* pack_counts with the shift by the rank index alone.
pack_counts_shift_i(counts) ==
    UNION {Shl(BitsOf(counts[r]), r - 1) : r \in Ranks}

\* key |= (c as u64) << (4 * i), for every rank.
pack_counts(counts) ==
    UNION {Shl(BitsOf(counts[r]), FieldBits * (r - 1)) : r \in Ranks}

\* counts[i] = (key & 0xF) as u8; key >>= 4.
unpack_counts(key) ==
    [r \in Ranks |-> LowNibble(Shr(key, FieldBits * (r - 1)))]

\* ------------------------------------------------------------ probabilities
RECURSIVE GCD(_, _)
GCD(a, b) == IF b = 0 THEN a ELSE GCD(b, a % b)

RatNorm(n, d) == LET g == GCD(n, d) IN <<n \div g, d \div g>>
RatZero == <<0, 1>>
RatOne == <<1, 1>>
RatAdd(a, b) == RatNorm(a[1] * b[2] + b[1] * a[2], a[2] * b[2])
RatMul(a, b) == RatNorm(a[1] * b[1], a[2] * b[2])

RECURSIVE RatSum(_, _)
RatSum(f, S) ==
    IF S = {} THEN RatZero
    ELSE LET x == CHOOSE y \in S : TRUE IN RatAdd(f[x], RatSum(f, S \ {x}))

\* A distribution's total probability mass.
Mass(d) == RatSum(d, DOMAIN d)

\* HashMap::new() / Dist::new().
EmptyDist == << >>

\* The terminal distribution with the draw count 0 whatever the run length.
PointDistZero(total, len) == <<total, 0>> :> RatOne

\* HashMap::from([((sum, 0), 1.0)]) and the terminal Dist of dist_from_state.
PointDist(total, len) == <<total, len>> :> RatOne

\* *map.entry(o).or_insert(0.0) += q
AddTo(d, o, q) ==
    IF o \in DOMAIN d THEN [d EXCEPT ![o] = RatAdd(@, q)] ELSE d @@ (o :> q)

\* -------------------------------------------------------------- operators
\* Memo key of solve: (sum, counts).
SolveKey(sum, counts) == [sum |-> sum, counts |-> counts]

\* StateKey { counts_key, total: total as u16, run_len: run_len as u8 }.
StateKey(counts_key, total, run_len) ==
    [counts_key |-> counts_key, total |-> total % 65536, run_len |-> run_len % 256]

\* The base case taken at 30 already.
AtOrOverThreshold(sum) == sum >= Threshold

\* if sum > 30
OverThreshold(sum) == sum > Threshold

\* A lookup that never finds the key.
MemoHasNever(m, key) == FALSE

\* memo.get(&key) is Some.
MemoHas(m, key) == key \in DOMAIN m

\* Every present rank equally likely.
DrawProbPerRank(counts, r) ==
    RatNorm(1, Cardinality({x \in Ranks : counts[x] > 0}))

\* counts[i] as f64 / total_cards_remaining as f64.
DrawProb(counts, r) == RatNorm(counts[r], CountSum(counts))

\* The draw count of the sub-problem passed on as it is.
LenUnchanged(cards_to_finish) == cards_to_finish

\* cards_to_finish + 1 (solve) and run_len + 1 (dist_from_state).
LenAfterDraw(cards_to_finish) == cards_to_finish + 1

\* next_counts[i] -= 1
Decrement(counts, r) == [counts EXCEPT ![r] = @ - 1]

RECURSIVE CombineSolve(_, _, _, _)
\* for ((final_score, cards_to_finish), sub_prob) in sub_outcomes:
\*     all_outcomes[(final_score, cards_to_finish + 1)] += p * sub_prob
CombineSolve(all_outcomes, sub, todo, p) ==
    IF todo = {} THEN all_outcomes
    ELSE LET o == CHOOSE x \in todo : TRUE IN
         CombineSolve(AddTo(all_outcomes, <<o[1], LenAfterDraw(o[2])>>, RatMul(p, sub[o])),
                      sub, todo \ {o}, p)

RECURSIVE CombineDist(_, _, _, _)
\* for (t, sub_map) in sub_dist: for (len, subp) in sub_map:
\*     result[t][len] += p * subp
CombineDist(result, sub, todo, p) ==
    IF todo = {} THEN result
    ELSE LET o == CHOOSE x \in todo : TRUE IN
         CombineDist(AddTo(result, o, RatMul(p, sub[o])), sub, todo \ {o}, p)

\* The ranks the loop has still to visit that are present in counts.
Pending(counts, i) == {r \in Ranks : r >= i /\ counts[r] > 0}

\* The next rank the loop branches on.
NextRank(counts, i) == CHOOSE r \in Pending(counts, i) : \A x \in Pending(counts, i) : r <= x

VARIABLES
    \* ---- pack_counts / unpack_counts
    pk_c, pk_d,         \* the two rank multisets
    pk_pc,              \* "idle" | "in" | "packed" | "unpacked"
    pk_kc, pk_kd,       \* their keys
    pk_back,            \* unpack_counts(pack_counts(pk_c))
    \* ---- the solvers
    impl,               \* "solve" (512.rs, memo_sim.rs) | "dist" (30_b_w.rs) | "idle"
    deck,               \* the initial counts
    target_sum,         \* dist_from_state's target_sum
    memo,               \* the memo cache
    stack,              \* the call stack, innermost call last
    ret,                \* the value the last finished call returned
    has_ret,            \* a call has returned and its caller has not consumed ret
    first_insert,       \* history: key -> the value of its first memo.insert
    insert_count,       \* history: key -> number of memo.insert calls
    \* ---- one chain of nested solve calls on the 48-card deck
    walk_sum,           \* the call's sum
    walk_counts,        \* the call's counts
    walk_len,           \* cards drawn on the way down
    walk_pc,            \* "idle" | "call" | "returned"
    \* ---- the Monte Carlo simulator
    sim_pc,             \* the main thread's position in the loop
    sim_game,           \* (final_score, game_length) of the game just played
    mutex,              \* holder of the results mutex: "free" | "main" | "handler"
    results,            \* SimResults
    handler_pc,         \* the Ctrl+C handler thread's position
    report              \* what report_and_save_results read

packVars == <<pk_c, pk_d, pk_pc, pk_kc, pk_kd, pk_back>>
solverVars == <<impl, deck, target_sum, memo, stack, ret, has_ret, first_insert, insert_count>>
walkVars == <<walk_sum, walk_counts, walk_len, walk_pc>>
simVars == <<sim_pc, sim_game, mutex, results, handler_pc, report>>
vars == <<pk_c, pk_d, pk_pc, pk_kc, pk_kd, pk_back,
          impl, deck, target_sum, memo, stack, ret, has_ret, first_insert, insert_count,
          walk_sum, walk_counts, walk_len, walk_pc,
          sim_pc, sim_game, mutex, results, handler_pc, report>>

\* ------------------------------------------------- the parts that do not run
WalkIdle ==
    /\ walk_sum = 0 /\ walk_counts = ZeroCounts /\ walk_len = 0 /\ walk_pc = "idle"

SimIdle ==
    /\ sim_pc = "idle" /\ sim_game = <<0, 0>> /\ mutex = "free"
    /\ results = [score_counts |-> << >>, length_counts |-> << >>, total_games |-> 0]
    /\ handler_pc = "idle" /\ report = <<0, 0, 0>>

PackIdle ==
    /\ pk_c = ZeroCounts /\ pk_d = ZeroCounts /\ pk_pc = "idle"
    /\ pk_kc = {} /\ pk_kd = {} /\ pk_back = ZeroCounts

\* ------------------------------------------------------------- the solvers
\* The initial decks: at most MaxCards cards, of the ranks in DeckRanks.
Decks ==
    {[r \in Ranks |-> IF r \in DeckRanks THEN c[r] ELSE 0] :
        c \in {x \in [DeckRanks -> 0..MaxCards] : SumOver(x, DeckRanks) <= MaxCards}}

\* The thresholds handed to dist_from_state: the small ones and main's.
Targets == (0..MaxTarget) \cup {MainTarget}

SolverIdle ==
    /\ impl = "idle" /\ deck = ZeroCounts /\ target_sum = 0
    /\ memo = << >> /\ stack = << >> /\ ret = EmptyDist /\ has_ret = FALSE
    /\ first_insert = << >> /\ insert_count = << >>

\* The frame of a call of solve(sum, counts, memo) at its first line.
SolveFrame(sum, counts) ==
    [sum |-> sum, counts |-> counts, i |-> 1, all_outcomes |-> EmptyDist, pc |-> "entry"]

\* The frame of a call of dist_from_state(counts_key, total, run_len, ..) at its first line.
DistFrame(counts_key, total, run_len) ==
    [counts_key |-> counts_key, total |-> total, run_len |-> run_len,
     i |-> 1, result |-> EmptyDist, pc |-> "entry"]

\* main: solve(0, initial_deck, &mut memo), or
\* dist_from_state(pack_counts(&initial_counts), 0, 0, target_sum, &mut memo).
SolverInit ==
    /\ impl \in {"solve", "dist"}
    /\ deck \in Decks
    /\ target_sum \in (IF impl = "solve" THEN {MainTarget} ELSE Targets)
    /\ stack = <<IF impl = "solve" THEN SolveFrame(0, deck)
                 ELSE DistFrame(pack_counts(deck), 0, 0)>>
    /\ memo = << >> /\ ret = EmptyDist /\ has_ret = FALSE
    /\ first_insert = << >> /\ insert_count = << >>

Top == stack[Len(stack)]
Caller == SubSeq(stack, 1, Len(stack) - 1)
Running == stack # << >>
Done == stack = << >> /\ has_ret

\* `return value` of the innermost call.
Return(value) ==
    /\ stack' = Caller
    /\ ret' = value
    /\ has_ret' = TRUE

\* memo.insert(key, value), with its history.
Insert(key, value) ==
    /\ memo' = (key :> value) @@ memo
    /\ first_insert' = IF key \in DOMAIN first_insert THEN first_insert
                       ELSE (key :> value) @@ first_insert
    /\ insert_count' = (key :> (IF key \in DOMAIN insert_count
                                THEN insert_count[key] + 1 ELSE 1)) @@ insert_count

NoInsert == UNCHANGED <<memo, first_insert, insert_count>>
Fixed == UNCHANGED <<impl, deck, target_sum, packVars, walkVars, simVars>>

\* ---- solve (512.rs, memo_sim.rs)
\* if sum > 30 { return {(sum, 0): 1.0} }
SolveBaseCase ==
    /\ impl = "solve" /\ Running /\ ~has_ret /\ Top.pc = "entry"
    /\ OverThreshold(Top.sum)
    /\ Return(PointDist(Top.sum, 0))
    /\ NoInsert /\ Fixed

\* if let Some(memoized_result) = memo.get(&(sum, counts)) { return clone }
SolveMemoHit ==
    /\ impl = "solve" /\ Running /\ ~has_ret /\ Top.pc = "entry"
    /\ ~OverThreshold(Top.sum)
    /\ MemoHas(memo, SolveKey(Top.sum, Top.counts))
    /\ Return(memo[SolveKey(Top.sum, Top.counts)])
    /\ NoInsert /\ Fixed

\* if total_cards_remaining == 0 { return HashMap::new() }
SolveExhausted ==
    /\ impl = "solve" /\ Running /\ ~has_ret /\ Top.pc = "entry"
    /\ ~OverThreshold(Top.sum)
    /\ ~MemoHas(memo, SolveKey(Top.sum, Top.counts))
    /\ CountSum(Top.counts) = 0
    /\ Return(EmptyDist)
    /\ NoInsert /\ Fixed

\* let mut all_outcomes = HashMap::new(); for i in 0..10 {
SolveEnterLoop ==
    /\ impl = "solve" /\ Running /\ ~has_ret /\ Top.pc = "entry"
    /\ ~OverThreshold(Top.sum)
    /\ ~MemoHas(memo, SolveKey(Top.sum, Top.counts))
    /\ CountSum(Top.counts) # 0
    /\ stack' = [stack EXCEPT ![Len(stack)].pc = "loop"]
    /\ UNCHANGED <<ret, has_ret>>
    /\ NoInsert /\ Fixed

\* if counts[i] > 0 { ...; solve(sum + card_value, next_counts, memo)
SolveRecurse ==
    /\ impl = "solve" /\ Running /\ ~has_ret /\ Top.pc = "loop"
    /\ Pending(Top.counts, Top.i) # {}
    /\ LET r == NextRank(Top.counts, Top.i) IN
       stack' = Append([stack EXCEPT ![Len(stack)].pc = "await", ![Len(stack)].i = r],
                       SolveFrame(Top.sum + r, Decrement(Top.counts, r)))
    /\ UNCHANGED <<ret, has_ret>>
    /\ NoInsert /\ Fixed

\* the loop over sub_outcomes, after the recursive call has returned
SolveCombine ==
    /\ impl = "solve" /\ Running /\ has_ret /\ Top.pc = "await"
    /\ stack' = [stack EXCEPT
                   ![Len(stack)].all_outcomes =
                       CombineSolve(@, ret, DOMAIN ret, DrawProb(Top.counts, Top.i)),
                   ![Len(stack)].i = @ + 1,
                   ![Len(stack)].pc = "loop"]
    /\ has_ret' = FALSE
    /\ UNCHANGED ret
    /\ NoInsert /\ Fixed

\* memo.insert((sum, counts), all_outcomes.clone()); all_outcomes
SolveMemoize ==
    /\ impl = "solve" /\ Running /\ ~has_ret /\ Top.pc = "loop"
    /\ Pending(Top.counts, Top.i) = {}
    /\ Insert(SolveKey(Top.sum, Top.counts), Top.all_outcomes)
    /\ Return(Top.all_outcomes)
    /\ Fixed

SolveNext ==
    \/ SolveBaseCase
    \/ SolveMemoHit
    \/ SolveExhausted
    \/ SolveEnterLoop
    \/ SolveRecurse
    \/ SolveCombine
    \/ SolveMemoize

\* ---- dist_from_state (30_b_w.rs)
TopKey == StateKey(Top.counts_key, Top.total, Top.run_len)
TopCounts == unpack_counts(Top.counts_key)

\* if let Some(cached) = memo.get(&key) { return cached.clone() }
DistMemoHit ==
    /\ impl = "dist" /\ Running /\ ~has_ret /\ Top.pc = "entry"
    /\ MemoHas(memo, TopKey)
    /\ Return(memo[TopKey])
    /\ NoInsert /\ Fixed

\* if total >= target_sum || remaining_cards == 0 { memo.insert(key, d); return d }
DistTerminal ==
    /\ impl = "dist" /\ Running /\ ~has_ret /\ Top.pc = "entry"
    /\ ~MemoHas(memo, TopKey)
    /\ Top.total >= target_sum \/ CountSum(TopCounts) = 0
    /\ Insert(TopKey, PointDist(Top.total, Top.run_len))
    /\ Return(PointDist(Top.total, Top.run_len))
    /\ Fixed

\* let mut result = Dist::new(); for (rank_index, &count_u8) in counts.iter().enumerate() {
DistEnterLoop ==
    /\ impl = "dist" /\ Running /\ ~has_ret /\ Top.pc = "entry"
    /\ ~MemoHas(memo, TopKey)
    /\ ~(Top.total >= target_sum \/ CountSum(TopCounts) = 0)
    /\ stack' = [stack EXCEPT ![Len(stack)].pc = "loop"]
    /\ UNCHANGED <<ret, has_ret>>
    /\ NoInsert /\ Fixed

\* if count == 0 { continue } ...;
\* dist_from_state(next_counts_key, total + rank_value, run_len + 1, target_sum, memo)
DistRecurse ==
    /\ impl = "dist" /\ Running /\ ~has_ret /\ Top.pc = "loop"
    /\ Pending(TopCounts, Top.i) # {}
    /\ LET r == NextRank(TopCounts, Top.i) IN
       stack' = Append([stack EXCEPT ![Len(stack)].pc = "await", ![Len(stack)].i = r],
                       DistFrame(pack_counts(Decrement(TopCounts, r)),
                                 Top.total + r, LenAfterDraw(Top.run_len)))
    /\ UNCHANGED <<ret, has_ret>>
    /\ NoInsert /\ Fixed

\* the accumulation with weight p, after the recursive call has returned
DistAccumulate ==
    /\ impl = "dist" /\ Running /\ has_ret /\ Top.pc = "await"
    /\ stack' = [stack EXCEPT
                   ![Len(stack)].result =
                       CombineDist(@, ret, DOMAIN ret, DrawProb(TopCounts, Top.i)),
                   ![Len(stack)].i = @ + 1,
                   ![Len(stack)].pc = "loop"]
    /\ has_ret' = FALSE
    /\ UNCHANGED ret
    /\ NoInsert /\ Fixed

\* memo.insert(key, result.clone()); result
DistMemoize ==
    /\ impl = "dist" /\ Running /\ ~has_ret /\ Top.pc = "loop"
    /\ Pending(TopCounts, Top.i) = {}
    /\ Insert(TopKey, Top.result)
    /\ Return(Top.result)
    /\ Fixed

DistNext ==
    \/ DistMemoHit
    \/ DistTerminal
    \/ DistEnterLoop
    \/ DistRecurse
    \/ DistAccumulate
    \/ DistMemoize

Init == SolverInit /\ PackIdle /\ WalkIdle /\ SimIdle
Next == SolveNext \/ DistNext
Spec == Init /\ [][Next]_vars

\* ------------------------------------------------- the drawing process itself
\* Whether drawing stops at this running total.
Stopped(total) == IF impl = "solve" THEN total > Threshold ELSE total >= target_sum

RECURSIVE SeqSum(_)
SeqSum(s) == IF s = << >> THEN 0 ELSE Head(s) + SeqSum(Tail(s))

RECURSIVE DrawSeqs(_, _)
\* The complete draw sequences from a state: ranks drawn one by one from counts
\* until the running total stops the drawing or no card is left.
DrawSeqs(counts, total) ==
    IF Stopped(total) \/ CountSum(counts) = 0 THEN {<< >>}
    ELSE UNION {{<<r>> \o s : s \in DrawSeqs(Decrement(counts, r), total + r)} :
                   r \in {x \in Ranks : counts[x] > 0}}

\* (final total, cards drawn) of a draw sequence.
OutcomeOf(s) == <<SeqSum(s), Len(s)>>

\* The outcomes with non-zero probability.
Support(d) == {o \in DOMAIN d : d[o][1] # 0}

ProbOf(d, o) == IF o \in DOMAIN d THEN d[o] ELSE RatZero

RECURSIVE CardsFrom(_, _)
\* The deck as a vector of card values, as main pushes them.
CardsFrom(counts, r) ==
    IF r > 10 THEN << >>
    ELSE [k \in 1..counts[r] |-> r] \o CardsFrom(counts, r + 1)

RECURSIVE Orderings(_)
\* deck.shuffle: every ordering of the positions in S.
Orderings(S) ==
    IF S = {} THEN {<< >>}
    ELSE UNION {{<<x>> \o t : t \in Orderings(S \ {x})} : x \in S}

RECURSIVE PlayFrom(_, _, _, _)
\* for card in deck.iter() { sum += *card; cards_drawn += 1; if sum > 30 { break } }
PlayFrom(cards, k, sum, cards_drawn) ==
    IF k > Len(cards) THEN <<sum, cards_drawn>>
    ELSE IF sum + cards[k] > Threshold THEN <<sum + cards[k], cards_drawn + 1>>
    ELSE PlayFrom(cards, k + 1, sum + cards[k], cards_drawn + 1)

\* play_game on a deck already shuffled: (sum, cards_drawn).
play_game(cards) == PlayFrom(cards, 1, 0, 0)

\* The outcome of play_game under each ordering of the deck's physical cards.
GameOutcomes(counts) ==
    LET cards == CardsFrom(counts, 1) IN
    [p \in Orderings(1..Len(cards)) |-> play_game([k \in 1..Len(cards) |-> cards[p[k]]])]

\* The probability that play_game ends on outcome o, the shuffle being uniform.
GameProb(games, o) ==
    RatNorm(Cardinality({p \in DOMAIN games : games[p] = o}), Cardinality(DOMAIN games))

\* ------------------------------------------------------------------- claims
\* C1 (as claimed): for every initial deck, solve(0, deck) gives each outcome
\* (final total, draw count) exactly the probability with which play_game, on a
\* uniformly shuffled deck, ends on it.
C1_SolveMatchesPlayGame ==
    (impl = "solve" /\ Done /\ CountSum(deck) >= 1) =>
        LET games == GameOutcomes(deck) IN
        \A o \in DOMAIN ret \cup {games[p] : p \in DOMAIN games} :
            ProbOf(ret, o) = GameProb(games, o)

\* The same on the decks whose face value exceeds 30, which no ordering exhausts.
SolveMatchesPlayGameAboveThreshold ==
    (impl = "solve" /\ Done /\ DeckValue(deck) > Threshold) =>
        LET games == GameOutcomes(deck) IN
        \A o \in DOMAIN ret \cup {games[p] : p \in DOMAIN games} :
            ProbOf(ret, o) = GameProb(games, o)

\* C2 (as claimed): from an initial multiset with at least one card, every
\* distribution a call of the solver returns has total probability exactly 1.
C2_ReturnedMassIsOne ==
    (CountSum(deck) >= 1 /\ has_ret) => Mass(ret) = RatOne

\* The same for dist_from_state alone.
DistReturnedMassIsOne ==
    (impl = "dist" /\ has_ret) => Mass(ret) = RatOne

\* C3: in the distribution returned for the initial state, every outcome of
\* non-zero probability is (final total, number of cards drawn) of a complete draw
\* sequence, and every draw sequence that ends by passing the threshold has its
\* own (final total, number of cards drawn) among the outcomes, so that sequences
\* of different lengths ending on one total stay separate outcomes.
C3_DrawsCountedOncePerLevel ==
    Done =>
        LET seqs == DrawSeqs(deck, 0) IN
        /\ Support(ret) \subseteq {OutcomeOf(s) : s \in seqs}
        /\ {OutcomeOf(s) : s \in {x \in seqs : Stopped(SeqSum(x))}} \subseteq Support(ret)

\* solve has returned a distribution in which one final total is reached after
\* two different numbers of draws.
C3_Witness ==
    /\ impl = "solve" /\ Done
    /\ \E o1, o2 \in Support(ret) : o1[1] = o2[1] /\ o1[2] # o2[2]

\* The (remaining multiset, accumulated total) a memo key stands for.
KeyState(k) ==
    IF impl = "solve" THEN <<k.counts, k.sum>>
    ELSE <<unpack_counts(k.counts_key), k.total>>

SingleCard(v) == deck = [ZeroCounts EXCEPT ![v] = 1]

\* C6 (as claimed): for a deck of exactly one card, of value V, and any target
\* below V, target 0 included, dist_from_state started at total 0 returns exactly
\* the outcome (V, 1 draw) with probability 1.
C6_SingleCardAnyTargetBelow ==
    \A v \in Ranks :
        (impl = "dist" /\ Done /\ SingleCard(v) /\ target_sum < v) =>
            ret = (<<v, 1>> :> RatOne)

\* C6 (amended): the same for every target from 1 up to V - 1.
C6_SingleCardPositiveTarget ==
    \A v \in Ranks :
        (impl = "dist" /\ Done /\ SingleCard(v) /\ target_sum >= 1 /\ target_sum < v) =>
            ret = (<<v, 1>> :> RatOne)

\* dist_from_state has returned for the single card 10 and target 3.
C6_Witness ==
    /\ impl = "dist" /\ Done /\ SingleCard(10) /\ target_sum = MaxTarget
    /\ ret = (<<10, 1>> :> RatOne)

\* The input the spec calls invalid: no card while the start total 0 is below the
\* threshold, or a threshold that is not positive.
InvalidInput ==
    IF impl = "solve" THEN CountSum(deck) = 0
    ELSE (CountSum(deck) = 0 /\ 0 < target_sum) \/ target_sum <= 0

\* C8 (as claimed): on invalid input no recursive call is made and no cache
\* entry is ever inserted.
C8_InvalidInputRejected ==
    InvalidInput => (Len(stack) <= 1 /\ DOMAIN memo = {})

\* C9: each memo key is inserted at most once, and an inserted entry stays in the
\* cache with the value of its first insertion, which is what a lookup returns.
C9_InsertedOnceNeverChanged ==
    /\ DOMAIN memo = DOMAIN insert_count
    /\ DOMAIN memo = DOMAIN first_insert
    /\ \A k \in DOMAIN memo : insert_count[k] = 1 /\ memo[k] = first_insert[k]

\* A call is about to look up a key whose entry, a distribution over several
\* outcomes, was inserted earlier in the run.
C9_Witness ==
    /\ Running /\ ~has_ret /\ Top.pc = "entry"
    /\ LET k == IF impl = "solve" THEN SolveKey(Top.sum, Top.counts) ELSE TopKey IN
       /\ k \in DOMAIN memo
       /\ Cardinality(DOMAIN memo[k]) >= 2
       /\ insert_count[k] = 1

\* ------------------------------- one branch of solve on the 48-card deck
\* The chain of nested calls solve makes down one branch of its loop. A branch
\* that ends in the base case puts its sum, with positive weight, among the final
\* totals of every distribution above it.
\* Four cards of each rank 1..9 and twelve of rank 10.
WalkDeck == [r \in Ranks |-> IF r = 10 THEN 12 ELSE 4]

\* main: solve(0, initial_deck, &mut memo)
WalkInit ==
    /\ walk_sum = 0 /\ walk_counts = WalkDeck /\ walk_len = 0 /\ walk_pc = "call"
    /\ SolverIdle /\ PackIdle /\ SimIdle

\* if sum > 30 { return {(sum, 0): 1.0} }: the final score walk_sum reaches the
\* root's distribution, walk_len draws above it.
WalkBaseCase ==
    /\ walk_pc = "call"
    /\ OverThreshold(walk_sum)
    /\ walk_pc' = "returned"
    /\ UNCHANGED <<walk_sum, walk_counts, walk_len, solverVars, packVars, simVars>>

\* if counts[i] > 0 { solve(sum + card_value, next_counts, memo) }: one level down.
WalkRecurse ==
    /\ walk_pc = "call"
    /\ ~OverThreshold(walk_sum)
    /\ \E r \in Ranks :
          /\ walk_counts[r] > 0
          /\ walk_sum' = walk_sum + r
          /\ walk_counts' = Decrement(walk_counts, r)
    /\ walk_len' = walk_len + 1
    /\ UNCHANGED <<walk_pc, solverVars, packVars, simVars>>

WalkNext == WalkBaseCase \/ WalkRecurse

SpecWalk == WalkInit /\ [][WalkNext]_vars

\* C7 (as claimed): on the deck of four cards of each rank 1..9 and twelve of
\* rank 10, every final total the solver gives probability to lies in 31..39.
C7_TotalsWithin31To39 ==
    walk_pc = "returned" => walk_sum \in 31..39

\* C7 (amended): on that deck no call runs out of cards at or below 30, every
\* final total lies in 31..40, and after three tens (sum 30 in three draws) a card
\* of every rank 1..10 is left to draw, so each of 31..40 is a final total.
C7_TotalsWithin31To40 ==
    /\ walk_pc = "returned" => walk_sum \in 31..40
    /\ (walk_pc = "call" /\ ~OverThreshold(walk_sum)) => CountSum(walk_counts) > 0
    /\ (walk_pc = "call" /\ walk_len = 3 /\ walk_sum = 30) =>
          \A r \in Ranks : walk_counts[r] > 0

\* A branch of four draws has returned the final total 40.
C7_Witness ==
    walk_pc = "returned" /\ walk_sum = 40 /\ walk_len = 4

\* A branch has returned the final total t.
WalkReturns(t) == walk_pc = "returned" /\ walk_sum = t

\* ------------------------------------------------ the Monte Carlo simulator
\* The tops of the shuffled deck the model lets deck.shuffle produce.
SimTops == {<<10, 10, 10, 1>>, <<10, 10, 10, 10>>, <<7, 7, 10, 6, 5>>}

SimInit ==
    /\ sim_pc = "play" /\ sim_game = <<0, 0>> /\ mutex = "free"
    /\ results = [score_counts |-> << >>, length_counts |-> << >>, total_games |-> 0]
    /\ handler_pc = "idle" /\ report = <<0, 0, 0>>
    /\ SolverIdle /\ PackIdle /\ WalkIdle

\* std::process::exit has not been called.
Alive == handler_pc # "exited"

\* The handler takes the mutex whether or not it is held.
HandlerMayLockAlways == TRUE

\* handler_data.lock() returns once the mutex is free.
HandlerMayLock == mutex = "free"

\* *map.entry(k).or_insert(0) += 1
Bump(map, k) == IF k \in DOMAIN map THEN [map EXCEPT ![k] = @ + 1] ELSE map @@ (k :> 1)

SimFixed == UNCHANGED <<solverVars, packVars, walkVars>>

\* let (final_score, game_length) = play_game(&mut deck);
MainPlay ==
    /\ Alive /\ sim_pc = "play"
    /\ results.total_games < MaxGames
    /\ \E top \in SimTops : sim_game' = play_game(top)
    /\ sim_pc' = "lock"
    /\ UNCHANGED <<mutex, results, handler_pc, report>> /\ SimFixed

\* let mut results = results_data.lock().unwrap();
MainLock ==
    /\ Alive /\ sim_pc = "lock"
    /\ mutex = "free"
    /\ mutex' = "main"
    /\ sim_pc' = "inc_total"
    /\ UNCHANGED <<sim_game, results, handler_pc, report>> /\ SimFixed

\* results.total_games += 1;
MainIncTotal ==
    /\ Alive /\ sim_pc = "inc_total"
    /\ results' = [results EXCEPT !.total_games = @ + 1]
    /\ sim_pc' = "inc_score"
    /\ UNCHANGED <<sim_game, mutex, handler_pc, report>> /\ SimFixed

\* *results.score_counts.entry(final_score).or_insert(0) += 1;
MainIncScore ==
    /\ Alive /\ sim_pc = "inc_score"
    /\ results' = [results EXCEPT !.score_counts = Bump(@, sim_game[1])]
    /\ sim_pc' = "inc_length"
    /\ UNCHANGED <<sim_game, mutex, handler_pc, report>> /\ SimFixed

\* *results.length_counts.entry(game_length).or_insert(0) += 1;
MainIncLength ==
    /\ Alive /\ sim_pc = "inc_length"
    /\ results' = [results EXCEPT !.length_counts = Bump(@, sim_game[2])]
    /\ sim_pc' = "unlock"
    /\ UNCHANGED <<sim_game, mutex, handler_pc, report>> /\ SimFixed

\* the end of the block: the guard is dropped
MainUnlock ==
    /\ Alive /\ sim_pc = "unlock"
    /\ mutex' = "free"
    /\ sim_pc' = "play"
    /\ UNCHANGED <<sim_game, results, handler_pc, report>> /\ SimFixed

\* Ctrl+C: the handler closure starts on the handler thread.
HandlerSignal ==
    /\ handler_pc = "idle"
    /\ handler_pc' = "lock"
    /\ UNCHANGED <<sim_pc, sim_game, mutex, results, report>> /\ SimFixed

\* let results = handler_data.lock().unwrap();
HandlerLock ==
    /\ handler_pc = "lock"
    /\ HandlerMayLock
    /\ mutex' = "handler"
    /\ handler_pc' = "report"
    /\ UNCHANGED <<sim_pc, sim_game, results, report>> /\ SimFixed

\* report_and_save_results(&results);
HandlerReport ==
    /\ handler_pc = "report"
    /\ report' = <<results.total_games,
                   SumOver(results.score_counts, DOMAIN results.score_counts),
                   SumOver(results.length_counts, DOMAIN results.length_counts)>>
    /\ handler_pc' = "exit"
    /\ UNCHANGED <<sim_pc, sim_game, mutex, results>> /\ SimFixed

\* std::process::exit(0);
HandlerExit ==
    /\ handler_pc = "exit"
    /\ handler_pc' = "exited"
    /\ UNCHANGED <<sim_pc, sim_game, mutex, results, report>> /\ SimFixed

SimNext ==
    \/ MainPlay
    \/ MainLock
    \/ MainIncTotal
    \/ MainIncScore
    \/ MainIncLength
    \/ MainUnlock
    \/ HandlerSignal
    \/ HandlerLock
    \/ HandlerReport
    \/ HandlerExit

SpecSim == SimInit /\ [][SimNext]_vars

\* C10: whenever the handler holds the results mutex to report, and in what it
\* reports, total_games equals the sum of score_counts and the sum of
\* length_counts.
C10_ReportIsConsistent ==
    /\ handler_pc \in {"report", "exit"} =>
          /\ results.total_games = SumOver(results.score_counts, DOMAIN results.score_counts)
          /\ results.total_games = SumOver(results.length_counts, DOMAIN results.length_counts)
    /\ handler_pc \in {"exit", "exited"} => (report[1] = report[2] /\ report[1] = report[3])

\* The handler has reported two games while the main thread, a third game
\* played, waits for the mutex.
C10_Witness ==
    /\ handler_pc = "exit" /\ sim_pc = "lock" /\ mutex = "handler"
    /\ report = <<2, 2, 2>>

\* ------------------------------------------------------- pack / unpack run
NonZero(counts) == Cardinality({r \in Ranks : counts[r] # 0})

\* The non-zero counts tried: each bit of a field alone, and all four.
PackValues == {1, 2, 4, 8, MaxPackCount}

\* The multisets with at most n non-zero counts, each count of PackValues.
RECURSIVE Multisets(_)
Multisets(n) ==
    IF n = 0 THEN {ZeroCounts}
    ELSE LET less == Multisets(n - 1) IN
         less \cup {[c EXCEPT ![r] = v] : c \in less, r \in Ranks, v \in PackValues}

PackInit ==
    /\ \E n \in 0..MaxNonZero :
          /\ pk_c \in Multisets(n)
          /\ pk_d \in Multisets(MaxNonZero - n)
    /\ pk_pc = "in"
    /\ pk_kc = {} /\ pk_kd = {} /\ pk_back = ZeroCounts
    /\ SolverIdle /\ WalkIdle /\ SimIdle

PackBoth ==
    /\ pk_pc = "in"
    /\ pk_kc' = pack_counts(pk_c)
    /\ pk_kd' = pack_counts(pk_d)
    /\ pk_pc' = "packed"
    /\ UNCHANGED <<pk_c, pk_d, pk_back, solverVars, walkVars, simVars>>

UnpackBack ==
    /\ pk_pc = "packed"
    /\ pk_back' = unpack_counts(pk_kc)
    /\ pk_pc' = "unpacked"
    /\ UNCHANGED <<pk_c, pk_d, pk_kc, pk_kd, solverVars, walkVars, simVars>>

PackNext == PackBoth \/ UnpackBack

SpecPack == PackInit /\ [][PackNext]_vars

\* C5: for rank multisets c and d with every count in 0..15, the keys are equal
\* exactly when the multisets are, and unpacking c's key gives c back.
C5_PackInjectiveRoundTrip ==
    /\ pk_pc \in {"packed", "unpacked"} => ((pk_kc = pk_kd) <=> (pk_c = pk_d))
    /\ pk_pc = "unpacked" => pk_back = pk_c

\* Two different multisets, one with a count of 15 next to a non-zero count,
\* have been packed and the first unpacked again.
C5_Witness ==
    /\ pk_pc = "unpacked"
    /\ pk_c # pk_d
    /\ \E r \in 1..9 : pk_c[r] = MaxPackCount /\ pk_c[r + 1] # 0
    /\ pk_back = pk_c

====
